---- MODULE Spec2Model ----
(***************************************************************************)
(* A model of the shader-party render state (src/src/shader/mod.rs), its   *)
(* uniforms (src/src/shader/uniforms.rs) and the event loop that drives it *)
(* (src/src/main.rs).                                                      *)
(*                                                                         *)
(* TLC keeps the fields of a record sorted by the first appearance of      *)
(* their names in the module, and sorts a record value where it is first   *)
(* compared: every record constructor below lists its fields in that       *)
(* order, so that a value shared by two workers is never reordered.        *)
(***************************************************************************)
EXTENDS Integers, Sequences, FiniteSets, TLC

(***************************************************************************)
(* Bounds of the model.                                                    *)
(***************************************************************************)
\* the largest width and height, in pixels, the window takes
MaxDim == 4
\* number of shader reloads in one run
MaxReloads == 2
\* number of times the elapsed milliseconds pass a multiple of 2^32
MaxWraps == 1
\* the points of the square tested for coverage lie 1 / GridSteps apart
GridSteps == 2

(***************************************************************************)
(* Binary floating point.  A finite float is a sign, an exponent and a     *)
(* mantissa of exactly F32Bits (f32) or F64Bits (f64) bits whose leading   *)
(* bit is 1; its value is (-1)^neg * (mantissa / 2^bits) * 2^exp.  An f32  *)
(* keeps the mantissa in m.  An f64 keeps it in two words, the leading     *)
(* HiBits bits in hi and the remaining LoBits bits in lo.  Zero has        *)
(* mantissa 0 and exponent 0.  Every operation rounds its exact result to  *)
(* nearest, ties to even.  cls tells a number from an infinity and a NaN.  *)
(* Exponents stay far from the subnormal and overflow ranges here.         *)
(***************************************************************************)
F32Bits == 24
F64Bits == 53
HiBits == F32Bits + 2
LoBits == F64Bits - HiBits

Pow2(n) == 2^n

F32(cls, neg, exp, m) == [cls |-> cls, neg |-> neg, exp |-> exp, m |-> m]
F64(cls, neg, exp, hi, lo) ==
    [cls |-> cls, neg |-> neg, exp |-> exp, hi |-> hi, lo |-> lo]

\* the literals 0.0 and 1.0
F32Zero == F32("num", FALSE, 0, 0)
F32One == F32("num", FALSE, 1, Pow2(F32Bits - 1))
F64Zero == F64("num", FALSE, 0, 0, 0)
F64One == F64("num", FALSE, 1, Pow2(HiBits - 1), 0)

\* the least k >= from with p < q * 2^k
RECURSIVE ShiftAbove(_, _, _)
ShiftAbove(p, q, from) ==
    IF p < q * Pow2(from) THEN from ELSE ShiftAbove(p, q, from + 1)

\* the least j >= from with p * 2^(j+1) >= q
RECURSIVE ShiftBelow(_, _, _)
ShiftBelow(p, q, from) ==
    IF p * Pow2(from + 1) >= q THEN from ELSE ShiftBelow(p, q, from + 1)

\* the next n quotient bits of r / q (0 <= r < q, r * 2^n within the machine
\* word of the model checker) and the remainder left over
DivBits(r, q, n) == [quot |-> (r * Pow2(n)) \div q, rem |-> (r * Pow2(n)) % q]

\* n quotient bits of r / q, taken in two halves
LongDiv(r, q, n) ==
    LET first == DivBits(r, q, n \div 2)
        second == DivBits(first.rem, q, n - n \div 2)
    IN  [quot |-> first.quot * Pow2(n - n \div 2) + second.quot,
         rem |-> second.rem]

\* (p as f64) / (q as f64) for small non-negative integers p and q
F64Div(p, q) ==
    IF q = 0 THEN (IF p = 0 THEN F64("nan", FALSE, 0, 0, 0)
                   ELSE F64("inf", FALSE, 0, 0, 0))
    ELSE IF p = 0 THEN F64Zero
    ELSE LET k == IF p >= q THEN ShiftAbove(p, q, 1) ELSE 0
             j == IF p >= q THEN 0 ELSE ShiftBelow(p, q, 0)
             num == p * Pow2(j)
             den == q * Pow2(k)
             h == LongDiv(num, den, HiBits)
             l == LongDiv(h.rem, den, LoBits)
             guard == 2 * l.rem >= den
             sticky == 2 * l.rem # den /\ l.rem # 0
             up == guard /\ (sticky \/ l.quot % 2 = 1)
             lo == IF up THEN l.quot + 1 ELSE l.quot
             hi == IF lo = Pow2(LoBits) THEN h.quot + 1 ELSE h.quot
         IN  IF hi = Pow2(HiBits)
             THEN F64("num", FALSE, k - j + 1, Pow2(HiBits - 1), 0)
             ELSE F64("num", FALSE, k - j, hi, lo % Pow2(LoBits))

\* `as f32` of an f64
F32Cast(f) ==
    IF f.cls # "num" THEN F32(f.cls, f.neg, 0, 0)
    ELSE LET m == f.hi \div 4
             guard == (f.hi \div 2) % 2 = 1
             sticky == f.hi % 2 = 1 \/ f.lo # 0
             up == guard /\ (sticky \/ m % 2 = 1)
         IN  IF ~up THEN F32("num", f.neg, f.exp, m)
             ELSE IF m + 1 = Pow2(F32Bits)
             THEN F32("num", f.neg, f.exp + 1, Pow2(F32Bits - 1))
             ELSE F32("num", f.neg, f.exp, m + 1)

\* the f32 nearest to d * 2^(exp - F32Bits) for an integer d > 0
RoundInt(neg, d, exp) ==
    IF d < Pow2(F32Bits - 1)
    THEN LET j == ShiftBelow(d, Pow2(F32Bits), 0)
         IN  F32("num", neg, exp - j, d * Pow2(j))
    ELSE LET k == ShiftAbove(d, Pow2(F32Bits), 0)
             unit == Pow2(k)
             m == d \div unit
             rest == d % unit
             up == 2 * rest > unit \/ (2 * rest = unit /\ m % 2 = 1)
         IN  IF ~up THEN F32("num", neg, exp + k, m)
             ELSE IF m + 1 = Pow2(F32Bits)
             THEN F32("num", neg, exp + k + 1, Pow2(F32Bits - 1))
             ELSE F32("num", neg, exp + k, m + 1)

\* f32 subtraction x - y
F32Sub(x, y) ==
    IF x.cls = "nan" \/ y.cls = "nan" THEN F32("nan", FALSE, 0, 0)
    ELSE IF x.cls = "inf" /\ y.cls = "inf"
    THEN (IF x.neg = y.neg THEN F32("nan", FALSE, 0, 0) ELSE x)
    ELSE IF x.cls = "inf" THEN x
    ELSE IF y.cls = "inf" THEN F32("inf", ~y.neg, 0, 0)
    ELSE IF y.m = 0 THEN x
    ELSE IF x.m = 0 THEN [y EXCEPT !.neg = ~y.neg]
    ELSE LET e == IF x.exp < y.exp THEN x.exp ELSE y.exp
             sa == (IF x.neg THEN -1 ELSE 1) * x.m * Pow2(x.exp - e)
             sb == (IF y.neg THEN -1 ELSE 1) * y.m * Pow2(y.exp - e)
             d == sa - sb
         IN  IF d = 0 THEN F32Zero
             ELSE RoundInt(d < 0, IF d < 0 THEN -d ELSE d, e)

(***************************************************************************)
(* Milliseconds.  Duration::as_millis is a u128; it is kept here as three  *)
(* words <<hi, w1, w0>> denoting hi * 2^32 + w1 * 2^16 + w0, so that the   *)
(* cast `as u32` is the two low words <<w1, w0>>.                          *)
(***************************************************************************)
U16Max == 65535

\* the clock readings the model feeds: the start, and the instants just
\* before and at each multiple of 2^32 milliseconds
Instants ==
    {<<0, 0, 0>>} \cup {<<k - 1, U16Max, U16Max>> : k \in 1..MaxWraps}
                  \cup {<<k, 0, 0>> : k \in 1..MaxWraps}

\* t1 <= t2 for word sequences of equal length, most significant word first
RECURSIVE WordsLe(_, _)
WordsLe(t1, t2) ==
    IF t1 = <<>> THEN TRUE
    ELSE IF Head(t1) # Head(t2) THEN Head(t1) < Head(t2)
    ELSE WordsLe(Tail(t1), Tail(t2))

\* `as u32` of a u128
AsU32(millis) == <<millis[2], millis[3]>>

(***************************************************************************)
(* The shader files on disk and the command line.                          *)
(***************************************************************************)
DefaultPath == "./shaders/shader.wgsl"
\* a path given with --path: Config::path is any string of the command line
CustomPath == "./custom.wgsl"
Paths == {DefaultPath, CustomPath}

Missing == "missing"
Invalid == "invalid wgsl"
ValidSources == {"wgsl A", "wgsl B"}
Contents == {Missing, Invalid} \cup ValidSources

NoPipeline ==
    [id |-> 0, layout |-> "none", format |-> "none", shader |-> "none",
     primitive |-> [topology |-> "none", front_face |-> "none", cull_mode |-> "none"]]

(***************************************************************************)
(* src/src/shader/geometry.rs                                              *)
(***************************************************************************)
VERTICES == << <<-1, -1, 0>>, <<1, -1, 0>>, <<1, 1, 0>>, <<-1, 1, 0>> >>
\* an index list whose second triangle repeats the first: vertex 1 is unused
INDICES_repeats_triangle == <<2, 3, 0, 2, 3, 0>>

INDICES == <<2, 3, 0, 1, 2, 0>>

\* PrimitiveTopology::TriangleList: the k-th triangle, k from 0, is made of
\* the three indices from position 3k on
Triangle(indices, k) == <<indices[3 * k + 1], indices[3 * k + 2], indices[3 * k + 3]>>

(***************************************************************************)
(* src/src/shader/uniforms.rs                                              *)
(***************************************************************************)
TimeUniform_new == [time |-> <<0, 0>>]

MouseUniform_new == [cursor_pos |-> <<F32Zero, F32Zero>>]

\* x - y modulo 2^32 on two-word values
WordsSub(x, y) ==
    LET borrow == IF x[2] < y[2] THEN 1 ELSE 0
    IN  <<(x[1] - y[1] - borrow) % (U16Max + 1), (x[2] - y[2]) % (U16Max + 1)>>

\* update_time storing the milliseconds since the value it held, a frame
\* delta, instead of the milliseconds since the start
update_time_delta(uniform, elapsed) ==
    [uniform EXCEPT !.time = WordsSub(AsU32(elapsed), uniform.time)]

\* update_time with a saturating conversion: u32::MAX once the milliseconds
\* do not fit in 32 bits
update_time_saturating(uniform, elapsed) ==
    [uniform EXCEPT !.time = IF elapsed[1] > 0 THEN <<U16Max, U16Max>>
                             ELSE <<elapsed[2], elapsed[3]>>]

\* TimeUniform::update_time; `elapsed` is start_time.elapsed().as_millis()
update_time(uniform, elapsed) == [uniform EXCEPT !.time = AsU32(elapsed)]

\* update_position without the flip of the y axis
update_position_no_flip(uniform, x, y) == [uniform EXCEPT !.cursor_pos = <<x, y>>]

\* MouseUniform::update_position
update_position(uniform, x, y) ==
    [uniform EXCEPT !.cursor_pos = <<x, F32Sub(F32One, y)>>]

\* Uniform::make_binding: the buffer is created holding the uniform's bytes
make_binding(uniform, label) ==
    [uniform |-> uniform, buffer |-> uniform, bind_group |-> label]

(***************************************************************************)
(* src/src/shader/mod.rs                                                   *)
(***************************************************************************)
\* new_shader that swallows a failure to read or to compile and hands back
\* an empty module
new_shader_lenient(files, path) ==
    IF files[path] \notin ValidSources
    THEN [panic |-> "", module |-> "none"]
    ELSE [panic |-> "", module |-> files[path]]

\* fs::read_to_string(path).expect(..) panics when the file cannot be read;
\* create_shader_module on text that does not compile raises a validation
\* error, and with no error scope pushed and no handler installed that
\* error panics as well.
new_shader(files, path) ==
    IF files[path] = Missing
    THEN [panic |-> "Failed reading shader", module |-> "none"]
    ELSE IF files[path] \notin ValidSources
    THEN [panic |-> "wgpu error", module |-> "none"]
    ELSE [panic |-> "", module |-> files[path]]

\* new_pipeline with clockwise front faces
new_pipeline_clockwise_front(id, surface_config, render_pipeline_layout, shader) ==
    [id |-> id,
     layout |-> render_pipeline_layout,
     format |-> surface_config.format,
     shader |-> shader,
     primitive |-> [topology |-> "TriangleList", front_face |-> "Cw", cull_mode |-> "Back"]]

\* the pipeline object the device creates under handle `id`
new_pipeline(id, surface_config, render_pipeline_layout, shader) ==
    [id |-> id,
     layout |-> render_pipeline_layout,
     format |-> surface_config.format,
     shader |-> shader,
     primitive |-> [topology |-> "TriangleList", front_face |-> "Ccw", cull_mode |-> "Back"]]

\* twice the signed area of the triangle p, q, r in clip space, x to the
\* right and y up: positive when p, q, r run counter-clockwise
SignedArea2(p, q, r) == (q[1] - p[1]) * (r[2] - p[2]) - (r[1] - p[1]) * (q[2] - p[2])

\* the winding of the triangle of indices `t` over `vertices`
Winding(vertices, t) ==
    LET area == SignedArea2(vertices[t[1] + 1], vertices[t[2] + 1], vertices[t[3] + 1])
    IN  IF area > 0 THEN "Ccw" ELSE IF area < 0 THEN "Cw" ELSE "none"

\* the rasteriser drops a triangle without area, and one whose face, front
\* when its winding is the pipeline's front_face, is the face to cull
Culled(primitive, winding) ==
    \/ winding = "none"
    \/ primitive.cull_mode = "Back" /\ winding # primitive.front_face
    \/ primitive.cull_mode = "Front" /\ winding = primitive.front_face

\* the point pt / scale lies in the triangle of indices `t` over
\* `vertices`, edges included
Covers(vertices, t, pt, scale) ==
    LET corner(i) == <<scale * vertices[t[i] + 1][1], scale * vertices[t[i] + 1][2]>>
        side(i, j) == SignedArea2(corner(i), corner(j), pt)
    IN  \/ side(1, 2) >= 0 /\ side(2, 3) >= 0 /\ side(3, 1) >= 0
        \/ side(1, 2) <= 0 /\ side(2, 3) <= 0 /\ side(3, 1) <= 0

PreferredFormat == "Bgra8UnormSrgb"

Size(w, h) == [width |-> w, height |-> h]

\* the bluish default of State::new: the f64 literals 0.1, 0.2, 0.3, 1.0
DefaultBackground ==
    [r |-> F64Div(1, 10), g |-> F64Div(2, 10), b |-> F64Div(3, 10), a |-> F64One]

\* State::new.  surface.calls and queue log the calls made on the two
\* handles while one event is handled, and trace lists the calls on both in
\* the order the code makes them; device counts the pipelines it made.
State_new(window_size, config, files) ==
    LET surface_config == [format |-> PreferredFormat,
                           width |-> window_size.width,
                           height |-> window_size.height,
                           usage |-> "RENDER_ATTACHMENT",
                           present_mode |-> "Fifo"]
        render_pipeline_layout == <<"Time Bind Group", "Mouse Bind Group">>
        shader == new_shader(files, config.path)
    IN  [panic |-> shader.panic,
         self |->
            [time |-> make_binding(TimeUniform_new, "Time Bind Group"),
             surface_config |-> surface_config,
             render_pipeline_layout |-> render_pipeline_layout,
             config |-> config,
             surface |-> [config |-> surface_config, calls |-> <<"configure">>],
             device |-> [pipelines |-> IF shader.panic = "" THEN 1 ELSE 0],
             queue |-> <<>>,
             size |-> window_size,
             render_pipeline |->
                 IF shader.panic = ""
                 THEN new_pipeline(1, surface_config, render_pipeline_layout,
                                   shader.module)
                 ELSE NoPipeline,
             vertex_buffer |-> VERTICES,
             index_buffer |-> INDICES,
             num_indices |-> Len(INDICES),
             background_colour |-> DefaultBackground,
             mouse |-> make_binding(MouseUniform_new, "Mouse Bind Group"),
             trace |-> <<"configure">>]]

\* refresh_shader that builds the pipeline and drops it, keeping the old one
refresh_shader_keeps_old(self, files) ==
    LET shader == new_shader(files, self.config.path)
    IN  IF shader.panic # "" THEN [panic |-> shader.panic, self |-> self]
        ELSE [panic |-> "",
              self |-> [self EXCEPT !.device.pipelines = self.device.pipelines + 1]]

\* refresh_shader that rebuilds from the shader text it already holds
\* instead of the text now in the file
refresh_shader_cached(self, files) ==
    LET shader == new_shader(files, self.config.path)
        id == self.device.pipelines + 1
    IN  IF shader.panic # "" THEN [panic |-> shader.panic, self |-> self]
        ELSE [panic |-> "",
              self |-> [self EXCEPT
                  !.device.pipelines = id,
                  !.render_pipeline =
                      new_pipeline(id, self.surface_config,
                                   self.render_pipeline_layout,
                                   self.render_pipeline.shader)]]

\* refresh_shader that makes the uniform bindings anew along with the
\* pipeline
refresh_shader_rebuilds_bindings(self, files) ==
    LET shader == new_shader(files, self.config.path)
        id == self.device.pipelines + 1
    IN  IF shader.panic # "" THEN [panic |-> shader.panic, self |-> self]
        ELSE [panic |-> "",
              self |-> [self EXCEPT
                  !.time = make_binding(TimeUniform_new, "Time Bind Group"),
                  !.device.pipelines = id,
                  !.render_pipeline =
                      new_pipeline(id, self.surface_config,
                                   self.render_pipeline_layout, shader.module),
                  !.mouse = make_binding(MouseUniform_new, "Mouse Bind Group")]]

\* refresh_shader that reads the shader from the default path, whatever
\* path the program was started with
refresh_shader_default_path(self, files) ==
    LET shader == new_shader(files, DefaultPath)
        id == self.device.pipelines + 1
    IN  IF shader.panic # "" THEN [panic |-> shader.panic, self |-> self]
        ELSE [panic |-> "",
              self |-> [self EXCEPT
                  !.device.pipelines = id,
                  !.render_pipeline =
                      new_pipeline(id, self.surface_config,
                                   self.render_pipeline_layout, shader.module)]]

\* State::refresh_shader
refresh_shader(self, files) ==
    LET shader == new_shader(files, self.config.path)
        id == self.device.pipelines + 1
    IN  IF shader.panic # "" THEN [panic |-> shader.panic, self |-> self]
        ELSE [panic |-> "",
              self |-> [self EXCEPT
                  !.device.pipelines = id,
                  !.render_pipeline =
                      new_pipeline(id, self.surface_config,
                                   self.render_pipeline_layout, shader.module)]]

\* resize without the test for zero dimensions
resize_unguarded(self, new_size) ==
    LET cfg == [self.surface_config EXCEPT !.width = new_size.width,
                                           !.height = new_size.height]
    IN  [self EXCEPT !.size = new_size,
                     !.surface_config = cfg,
                     !.surface.config = cfg,
                     !.surface.calls = Append(@, "configure"),
                          !.trace = Append(@, "configure")]

\* resize that forgets the height of the surface configuration
resize_width_only(self, new_size) ==
    IF new_size.width > 0 /\ new_size.height > 0
    THEN LET cfg == [self.surface_config EXCEPT !.width = new_size.width]
         IN  [self EXCEPT !.size = new_size,
                          !.surface_config = cfg,
                          !.surface.config = cfg,
                          !.surface.calls = Append(@, "configure"),
                          !.trace = Append(@, "configure")]
    ELSE self

\* resize that also builds the pipeline anew for the surface it configured
resize_rebuilds_pipeline(self, new_size) ==
    IF new_size.width > 0 /\ new_size.height > 0
    THEN LET cfg == [self.surface_config EXCEPT !.width = new_size.width,
                                                !.height = new_size.height]
             id == self.device.pipelines + 1
         IN  [self EXCEPT !.surface_config = cfg,
                          !.surface.config = cfg,
                          !.surface.calls = Append(@, "configure"),
                          !.device.pipelines = id,
                          !.size = new_size,
                          !.render_pipeline =
                              new_pipeline(id, cfg, self.render_pipeline_layout,
                                           self.render_pipeline.shader),
                          !.trace = Append(@, "configure")]
    ELSE self

\* resize that stores the new size and configuration and returns before the
\* surface is configured with them
resize_deferred_configure(self, new_size) ==
    IF new_size.width > 0 /\ new_size.height > 0
    THEN LET cfg == [self.surface_config EXCEPT !.width = new_size.width,
                                                !.height = new_size.height]
         IN  [self EXCEPT !.size = new_size, !.surface_config = cfg]
    ELSE self

\* resize that only asks for a positive height
resize_accepts_zero_width(self, new_size) ==
    IF new_size.height > 0
    THEN LET cfg == [self.surface_config EXCEPT !.width = new_size.width,
                                                !.height = new_size.height]
         IN  [self EXCEPT !.size = new_size,
                          !.surface_config = cfg,
                          !.surface.config = cfg,
                          !.surface.calls = Append(@, "configure"),
                          !.trace = Append(@, "configure")]
    ELSE self

\* resize that stores the new size and configures the surface with the
\* width and height it had
resize_keeps_configured_size(self, new_size) ==
    IF new_size.width > 0 /\ new_size.height > 0
    THEN [self EXCEPT !.size = new_size,
                      !.surface.config = self.surface_config,
                      !.surface.calls = Append(@, "configure"),
                      !.trace = Append(@, "configure")]
    ELSE self

\* State::resize
resize(self, new_size) ==
    IF new_size.width > 0 /\ new_size.height > 0
    THEN LET cfg == [self.surface_config EXCEPT !.width = new_size.width,
                                                !.height = new_size.height]
         IN  [self EXCEPT !.size = new_size,
                          !.surface_config = cfg,
                          !.surface.config = cfg,
                          !.surface.calls = Append(@, "configure"),
                          !.trace = Append(@, "configure")]
    ELSE self

\* State::current_size
current_size(self) == self.size

\* input that takes the red channel and the mouse x from the cursor's y and
\* the green channel and the mouse y from the cursor's x
input_swapped_axes(self, event) ==
    IF event.kind = "CursorMoved"
    THEN LET ny == F64Div(event.arg1, self.size.width)
             nx == F64Div(event.arg2, self.size.height)
         IN  [self |-> [self EXCEPT
                  !.mouse.uniform = update_position(@, F32Cast(nx), F32Cast(ny)),
                  !.background_colour.r = nx,
                  !.background_colour.g = ny],
              processed |-> TRUE]
    ELSE [self |-> self, processed |-> FALSE]

\* input that reports every window event as fully processed
input_swallows_window_events(self, event) ==
    IF event.kind = "CursorMoved"
    THEN LET nx == F64Div(event.arg1, self.size.width)
             ny == F64Div(event.arg2, self.size.height)
         IN  [self |-> [self EXCEPT
                  !.mouse.uniform = update_position(@, F32Cast(nx), F32Cast(ny)),
                  !.background_colour.r = nx,
                  !.background_colour.g = ny],
              processed |-> TRUE]
    ELSE [self |-> self, processed |-> TRUE]

\* State::input; the result is the new state and whether the event was
\* fully processed
input(self, event) ==
    IF event.kind = "CursorMoved"
    THEN LET nx == F64Div(event.arg1, self.size.width)
             ny == F64Div(event.arg2, self.size.height)
         IN  [self |-> [self EXCEPT
                  !.mouse.uniform = update_position(@, F32Cast(nx), F32Cast(ny)),
                  !.background_colour.r = nx,
                  !.background_colour.g = ny],
              processed |-> TRUE]
    ELSE [self |-> self, processed |-> FALSE]

\* update that uploads the time uniform and leaves the mouse buffer as it is
update_time_only(self, elapsed) ==
    LET t == update_time(self.time.uniform, elapsed)
    IN  [self EXCEPT
            !.time.uniform = t,
            !.time.buffer = t,
            !.queue = @ \o << [op |-> "write_buffer", arg |-> "Time Buffer"] >>,
            !.trace = Append(@, "write_buffer")]

\* State::update
update(self, elapsed) ==
    LET t == update_time(self.time.uniform, elapsed)
    IN  [self EXCEPT
            !.time.uniform = t,
            !.time.buffer = t,
            !.mouse.buffer = self.mouse.uniform,
            !.queue = @ \o << [op |-> "write_buffer", arg |-> "Time Buffer"],
                              [op |-> "write_buffer", arg |-> "Mouse Buffer"] >>,
            !.trace = @ \o <<"write_buffer", "write_buffer">>]

SurfaceErrors == {"Lost", "OutOfMemory", "Outdated", "Timeout"}

\* render that records and submits the frame before it looks at what
\* acquiring the surface texture gave
render_submits_before_acquiring(self, acquired) ==
    LET got == [self EXCEPT !.surface.calls = Append(@, "get_current_texture"),
                            !.trace = Append(@, "get_current_texture")]
        commands == [vertex_buffer |-> self.vertex_buffer,
                     index_buffer |-> self.index_buffer,
                     clear |-> self.background_colour,
                     pipeline |-> self.render_pipeline,
                     bind_groups |-> <<self.time.buffer, self.mouse.buffer>>,
                     draw_indexed |-> << <<0, self.num_indices>> >>]
        sent == [got EXCEPT !.queue = Append(@, [op |-> "submit", arg |-> commands]),
                            !.trace = Append(@, "submit")]
    IN  IF acquired # "Ok" THEN [self |-> sent, result |-> acquired]
        ELSE [self |-> [sent EXCEPT !.surface.calls = Append(@, "present"),
                                    !.trace = Append(@, "present")],
              result |-> "Ok"]

\* render that presents the surface texture before the commands that draw
\* into it are submitted
render_presents_before_submitting(self, acquired) ==
    LET got == [self EXCEPT !.surface.calls = Append(@, "get_current_texture"),
                            !.trace = Append(@, "get_current_texture")]
        commands == [vertex_buffer |-> self.vertex_buffer,
                     index_buffer |-> self.index_buffer,
                     clear |-> self.background_colour,
                     pipeline |-> self.render_pipeline,
                     bind_groups |-> <<self.time.buffer, self.mouse.buffer>>,
                     draw_indexed |-> << <<0, self.num_indices>> >>]
    IN  IF acquired # "Ok" THEN [self |-> got, result |-> acquired]
        ELSE [self |-> [got EXCEPT
                  !.queue = Append(@, [op |-> "submit", arg |-> commands]),
                  !.surface.calls = Append(@, "present"),
                  !.trace = @ \o <<"present", "submit">>],
              result |-> "Ok"]

\* State::render; `acquired` is what surface.get_current_texture() gives.
\* draw_indexed lists the index range of every draw_indexed call recorded
\* in the render pass.
render(self, acquired) ==
    LET got == [self EXCEPT !.surface.calls = Append(@, "get_current_texture"),
                            !.trace = Append(@, "get_current_texture")]
        commands == [vertex_buffer |-> self.vertex_buffer,
                     index_buffer |-> self.index_buffer,
                     clear |-> self.background_colour,
                     pipeline |-> self.render_pipeline,
                     bind_groups |-> <<self.time.buffer, self.mouse.buffer>>,
                     draw_indexed |-> << <<0, self.num_indices>> >>]
    IN  IF acquired # "Ok" THEN [self |-> got, result |-> acquired]
        ELSE [self |-> [got EXCEPT
                  !.queue = Append(@, [op |-> "submit", arg |-> commands]),
                  !.surface.calls = Append(@, "present"),
                  !.trace = @ \o <<"submit", "present">>],
              result |-> "Ok"]

(***************************************************************************)
(* The event loop driver, src/src/main.rs.                                 *)
(***************************************************************************)
Event(kind, arg1, arg2) == [kind |-> kind, arg1 |-> arg1, arg2 |-> arg2]

\* the designated reload key press runs the hot reload
reload_key(self, files) == refresh_shader(self, files)

\* the window event arm without the arm of the close request and the Escape
\* press
window_event_ignores_close(self, control_flow, event) ==
    LET in == input(self, event)
        same == [self |-> in.self, control_flow |-> control_flow]
    IN  IF in.processed THEN same
        ELSE CASE event.kind \in {"Resized", "ScaleFactorChanged"} ->
                      [same EXCEPT !.self = resize(in.self, Size(event.arg1, event.arg2))]
               [] OTHER -> same

\* the Event::WindowEvent arm of the closure given to event_loop.run
window_event(self, control_flow, event) ==
    LET in == input(self, event)
        same == [self |-> in.self, control_flow |-> control_flow]
    IN  IF in.processed THEN same
        ELSE CASE event.kind \in {"CloseRequested", "EscapePressed"} ->
                      [same EXCEPT !.control_flow = "Exit"]
               [] event.kind \in {"Resized", "ScaleFactorChanged"} ->
                      [same EXCEPT !.self = resize(in.self, Size(event.arg1, event.arg2))]
               [] OTHER -> same

\* the RedrawRequested arm without the arm for a lost surface
redraw_requested_event_no_lost_arm(self, control_flow, elapsed, acquired) ==
    LET updated == update(self, elapsed)
        r == render(updated, acquired)
        same == [self |-> r.self, control_flow |-> control_flow]
    IN  CASE r.result = "Ok" -> same
          [] r.result = "OutOfMemory" -> [same EXCEPT !.control_flow = "Exit"]
          [] OTHER -> same

\* the RedrawRequested arm without the arm for an out-of-memory error, which
\* falls to the arm that only logs
redraw_requested_event_no_oom_arm(self, control_flow, elapsed, acquired) ==
    LET updated == update(self, elapsed)
        r == render(updated, acquired)
        same == [self |-> r.self, control_flow |-> control_flow]
    IN  CASE r.result = "Ok" -> same
          [] r.result = "Lost" ->
                 [same EXCEPT !.self = resize(r.self, r.self.size)]
          [] OTHER -> same

\* the RedrawRequested arm with an explicit retry: an error other than Lost
\* and OutOfMemory makes it render once more in the same redraw
redraw_requested_event_retries(self, control_flow, elapsed, acquired) ==
    LET updated == update(self, elapsed)
        r == render(updated, acquired)
        same == [self |-> r.self, control_flow |-> control_flow]
    IN  CASE r.result = "Ok" -> same
          [] r.result = "Lost" ->
                 [same EXCEPT !.self = resize(r.self, r.self.size)]
          [] r.result = "OutOfMemory" -> [same EXCEPT !.control_flow = "Exit"]
          [] OTHER -> [same EXCEPT !.self = render(r.self, "Ok").self]

\* the RedrawRequested arm rendering the frame before it updates the
\* uniforms
redraw_requested_event_render_first(self, control_flow, elapsed, acquired) ==
    LET r == render(self, acquired)
        updated == update(r.self, elapsed)
        same == [self |-> updated, control_flow |-> control_flow]
    IN  CASE r.result = "Ok" -> same
          [] r.result = "Lost" ->
                 [same EXCEPT !.self = resize(updated, updated.size)]
          [] r.result = "OutOfMemory" -> [same EXCEPT !.control_flow = "Exit"]
          [] OTHER -> same

\* the Event::RedrawRequested arm
redraw_requested_event(self, control_flow, elapsed, acquired) ==
    LET updated == update(self, elapsed)
        r == render(updated, acquired)
        same == [self |-> r.self, control_flow |-> control_flow]
    IN  CASE r.result = "Ok" -> same
          [] r.result = "Lost" ->
                 [same EXCEPT !.self = resize(r.self, r.self.size)]
          [] r.result = "OutOfMemory" -> [same EXCEPT !.control_flow = "Exit"]
          [] OTHER -> same

VARIABLES
    state,             \* the render state, shader::State
    control_flow,      \* *control_flow of the event loop: "Poll" or "Exit"
    panicked,          \* the panic message once the process has panicked, else ""
    redraw_requested,  \* window.request_redraw() was called and is not served yet
    files,             \* the content of the shader files on disk
    elapsed,           \* the last reading of start_time.elapsed().as_millis()
    event,             \* the event the closure handled last
    loop_destroyed     \* event_loop.run has left its loop: the closure is called no more

vars == <<state, control_flow, panicked, redraw_requested, files, elapsed, event,
          loop_destroyed>>

Running == control_flow = "Poll" /\ panicked = ""

\* event_loop.run still calls the closure. Setting *control_flow to Exit
\* does not return from the closure's caller: the loop reads control_flow
\* when the iteration is over, after MainEventsCleared and the redraw that
\* was requested, so the closure is still called for these with
\* control_flow staying Exit, and so it is for the window events that were
\* pending behind the one that set Exit.
Dispatching == panicked = "" /\ ~loop_destroyed

\* the call logs describe one event: they start empty when the closure is entered
Begin(self) == [self EXCEPT !.queue = <<>>, !.surface.calls = <<>>, !.trace = <<>>]

\* the widths and heights the model feeds for a visible window
WindowDims == (MaxDim - 1)..MaxDim

\* the text of the shader file that the command line does not name: the
\* program never opens it
UnreadSource == "wgsl A"

\* the files on disk when the program starts with --path `path`
StartFiles(path) ==
    {fs \in [Paths -> Contents] : \A other \in Paths \ {path} : fs[other] = UnreadSource}

Init ==
    \E w \in WindowDims, h \in WindowDims, path \in Paths :
      \E fs \in StartFiles(path) :
        LET made == State_new(Size(w, h), [path |-> path], fs)
        IN  /\ state = made.self
            /\ panicked = made.panic
            /\ control_flow = "Poll"
            /\ redraw_requested = FALSE
            /\ files = fs
            /\ elapsed = <<0, 0, 0>>
            /\ event = Event("Init", w, h)
            /\ loop_destroyed = FALSE

Deliver(ev) ==
    /\ Dispatching
    /\ ~redraw_requested
    /\ \E r \in {window_event(Begin(state), control_flow, ev)} :
           /\ state' = r.self
           /\ control_flow' = r.control_flow
    /\ event' = ev
    /\ UNCHANGED <<panicked, redraw_requested, files, elapsed, loop_destroyed>>

\* the cursor position the model feeds, inside every window size it feeds:
\* a point whose coordinates differ, so that the two axes are told apart
CursorPositions == {<<2, 1>>}

CursorMoved == \E p \in CursorPositions : Deliver(Event("CursorMoved", p[1], p[2]))

CloseRequested == Deliver(Event("CloseRequested", 0, 0))

EscapePressed == Deliver(Event("EscapePressed", 0, 0))

Resized == \E w \in {0} \cup WindowDims, h \in {0} \cup WindowDims : Deliver(Event("Resized", w, h))

\* the new inner size the window system proposes for a window of positive size
ScaleFactorChanged ==
    \E w \in WindowDims, h \in WindowDims : Deliver(Event("ScaleFactorChanged", w, h))

\* the handler of the reload key; the window event arm of main.rs has no
\* arm for it.  The event keeps, as arg1, the shader text of the pipeline
\* that was in use when the key was pressed.
ReloadKeyPressed ==
    /\ Dispatching
    /\ ~redraw_requested
    /\ state.device.pipelines <= MaxReloads
    /\ \E r \in {reload_key(Begin(state), files)} :
           /\ state' = r.self
           /\ panicked' = r.panic
    /\ event' = Event("ReloadKeyPressed", state.render_pipeline.shader, 0)
    /\ UNCHANGED <<control_flow, redraw_requested, files, elapsed, loop_destroyed>>

OtherWindowEvent == Deliver(Event("Focused", 0, 0))

MainEventsCleared ==
    /\ Dispatching
    /\ ~redraw_requested
    /\ redraw_requested' = TRUE
    /\ state' = Begin(state)
    /\ event' = Event("MainEventsCleared", 0, 0)
    /\ UNCHANGED <<control_flow, panicked, files, elapsed, loop_destroyed>>

\* the redraw is the last event of an iteration that the closure acts on:
\* after it the loop looks at control_flow and leaves on Exit
RedrawRequested ==
    /\ Dispatching
    /\ redraw_requested
    /\ \E now \in Instants, acquired \in {"Ok"} \cup SurfaceErrors :
        /\ WordsLe(elapsed, now)
        /\ \E r \in {redraw_requested_event(Begin(state), control_flow, now, acquired)} :
               /\ state' = r.self
               /\ control_flow' = r.control_flow
               /\ loop_destroyed' = (r.control_flow = "Exit")
        /\ elapsed' = now
        /\ event' = Event("RedrawRequested", acquired, 0)
    /\ redraw_requested' = FALSE
    /\ UNCHANGED <<panicked, files>>

\* the user edits, deletes or restores the shader file the program was
\* started with
EditFile ==
    /\ Dispatching
    /\ \E path \in {state.config.path}, content \in Contents :
        /\ files[path] # content
        /\ files' = [files EXCEPT ![path] = content]
    /\ UNCHANGED <<state, control_flow, panicked, redraw_requested, elapsed, event,
                   loop_destroyed>>

Next ==
    \/ CursorMoved
    \/ CloseRequested
    \/ EscapePressed
    \/ Resized
    \/ ScaleFactorChanged
    \/ ReloadKeyPressed
    \/ OtherWindowEvent
    \/ MainEventsCleared
    \/ RedrawRequested
    \/ EditFile

Spec == Init /\ [][Next]_vars

\* The window system emits MainEventsCleared after every batch of events
\* for as long as the loop runs, and RedrawRequested once a redraw was
\* requested.
\* The liveness specification starts the program without --path.
FairInit == Init /\ state.config.path = DefaultPath

FairSpec == FairInit /\ [][Next]_vars /\ WF_vars(MainEventsCleared) /\ WF_vars(RedrawRequested)

(***************************************************************************)
(* Properties.                                                             *)
(***************************************************************************)
ConfiguredPath == state.config.path

\* the command buffers submitted to the queue while the last event was handled
Submitted == {state.queue[i].arg : i \in {j \in 1..Len(state.queue) :
                                            state.queue[j].op = "submit"}}

\* how often `call` was made on the surface while the last event was handled
Calls(self, call) ==
    Cardinality({i \in 1..Len(self.surface.calls) : self.surface.calls[i] = call})

\* the step handles an event of one of `kinds`: every handler sets `event`
\* and leaves the files alone, and the only other step, a file edit, changes
\* the files
Handles(kinds) == event'.kind \in kinds /\ files' = files

Reload == Handles({"ReloadKeyPressed"})
Resize == Handles({"Resized", "ScaleFactorChanged"})
Redraw == Handles({"RedrawRequested"})

\* the step leaves the event loop as it was: the handler neither panics nor
\* sets the loop to exit
LoopGoesOn == panicked' = "" /\ control_flow' = control_flow

\* C1: a reload whose shader file does not compile leaves the active pipeline
\* the very same object, and the event loop goes on so that the next frame
\* is rendered with it.
C1_InvalidReloadKeepsPipeline ==
    [][(Reload /\ files[ConfiguredPath] = Invalid)
          => (state'.render_pipeline = state.render_pipeline /\ LoopGoesOn)]_vars

\* C2: a reload that fails, on reading the file or on compiling it, is never
\* fatal: no reload leaves the process panicked or the event loop exited.
C2_FailedReloadNotFatal ==
    [][Reload => LoopGoesOn]_vars

\* C3: a reload with a valid shader file puts a newly built pipeline in
\* place of the active one, no other event changes the active pipeline, and
\* every frame drawn binds the active pipeline: so every frame after the
\* reload, until the next successful reload, binds the new pipeline.
C3_ValidReloadReplacesPipeline ==
    [][/\ (Reload /\ files[ConfiguredPath] \in ValidSources)
            => /\ state'.render_pipeline # state.render_pipeline
               /\ state'.render_pipeline.id > state.render_pipeline.id
               /\ LoopGoesOn
       /\ ~Reload => state'.render_pipeline = state.render_pipeline
       /\ \A i \in 1..Len(state'.queue) :
             state'.queue[i].op = "submit"
                 => state'.queue[i].arg.pipeline = state'.render_pipeline]_vars

\* a frame was drawn with a pipeline that a reload built
C3_Witness ==
    /\ event.kind = "RedrawRequested"
    /\ state.render_pipeline.id > 1
    /\ \E c \in Submitted : c.pipeline.id = state.render_pipeline.id

\* C4: the pipeline a reload builds is made from the text the configured
\* file holds at the moment of the reload, with the pipeline layout and the
\* surface format the render state already has.
C4_ReloadReadsFileAtReloadTime ==
    [][(Reload /\ files[ConfiguredPath] \in ValidSources)
          => /\ state'.render_pipeline.shader = files[ConfiguredPath]
             /\ state'.render_pipeline.layout = state.render_pipeline_layout
             /\ state'.render_pipeline.format = state.surface_config.format
             /\ state'.config = state.config]_vars

\* the program was started with --path, the file at that path was given
\* another text after startup, and the first reload has replaced the
\* pipeline built at startup by one built from the text now in that file,
\* which is neither the text the startup pipeline had nor the text of the
\* file at the default path
C4_Witness ==
    /\ event.kind = "ReloadKeyPressed"
    /\ ConfiguredPath = CustomPath
    /\ state.render_pipeline.id = 2
    /\ state.render_pipeline.shader = files[ConfiguredPath]
    /\ state.render_pipeline.shader # event.arg1
    /\ state.render_pipeline.shader # files[DefaultPath]

\* C5: the reload state machine always returns to Running: after every
\* reload, succeeded or failed, the event loop runs on with a usable
\* pipeline, the one it had or the one the reload built.
C5_ReloadReturnsToRunning ==
    [][Reload
          => /\ LoopGoesOn
             /\ state'.render_pipeline # NoPipeline
             /\ \/ state'.render_pipeline = state.render_pipeline
                \/ state'.render_pipeline.id = state.device.pipelines + 1]_vars

\* C6: a resize event with a zero width or a zero height changes neither the
\* stored size nor the stored surface configuration, and does not configure
\* the surface.
C6_ZeroResizeIsNoOp ==
    [][(Resize /\ (event'.arg1 = 0 \/ event'.arg2 = 0))
          => /\ state'.size = state.size
             /\ state'.surface_config = state.surface_config
             /\ state'.surface.config = state.surface.config
             /\ Calls(state', "configure") = 0]_vars

\* a resize to a zero dimension was handled
C6_Witness ==
    /\ event.kind = "Resized"
    /\ event.arg1 = 0
    /\ event.arg2 > 0
    /\ state.size.width > 0

\* C7: a resize event with both dimensions positive stores the new width
\* and height in the size and in the surface configuration, and configures
\* the surface with them exactly once.
C7_PositiveResizeReconfiguresOnce ==
    [][(Resize /\ event'.arg1 > 0 /\ event'.arg2 > 0)
          => /\ state'.size = Size(event'.arg1, event'.arg2)
             /\ state'.surface_config.width = event'.arg1
             /\ state'.surface_config.height = event'.arg2
             /\ state'.surface.config = state'.surface_config
             /\ Calls(state', "configure") = 1]_vars

\* a resize to a positive size with differing width and height was handled
C7_Witness ==
    /\ event.kind = "Resized"
    /\ event.arg1 > 0
    /\ event.arg2 > 0
    /\ event.arg1 # event.arg2
    /\ state.size = Size(event.arg1, event.arg2)

\* an f32 and an f64 in the unit interval [0, 1]
InUnit32(f) == f.cls = "num" /\ ~f.neg /\ (f.exp <= 0 \/ f = F32One)
InUnit64(f) == f.cls = "num" /\ ~f.neg /\ (f.exp <= 0 \/ f = F64One)

\* C8: after a cursor move to a position inside the window, the mouse
\* uniform is (nx, 1.0 - ny) and the red and green channels of the
\* background are nx and ny, where nx and ny are the position divided by the
\* stored size; all of them lie in [0, 1].
C8_CursorMoveSetsMouseAndBackground ==
    (/\ event.kind = "CursorMoved"
     /\ event.arg1 <= state.size.width
     /\ event.arg2 <= state.size.height)
        => LET nx == F64Div(event.arg1, state.size.width)
               ny == F64Div(event.arg2, state.size.height)
           IN  /\ state.mouse.uniform.cursor_pos[1] = F32Cast(nx)
               /\ state.mouse.uniform.cursor_pos[2] = F32Sub(F32One, F32Cast(ny))
               /\ state.background_colour.r = nx
               /\ state.background_colour.g = ny
               /\ InUnit32(state.mouse.uniform.cursor_pos[1])
               /\ InUnit32(state.mouse.uniform.cursor_pos[2])
               /\ InUnit64(state.background_colour.r)
               /\ InUnit64(state.background_colour.g)

\* the cursor moved to a position whose quotient by the height is not a
\* binary fraction
C8_Witness ==
    /\ event.kind = "CursorMoved"
    /\ event.arg2 = 1
    /\ state.size.height = 3
    /\ state.mouse.uniform.cursor_pos[2] # F32One

\* C9 as stated: the time uniform never decreases from one frame update to
\* the next.
C9_TimeNeverDecreases ==
    [][Redraw
          => WordsLe(state.time.uniform.time, state'.time.uniform.time)]_vars

\* C9 amended: the time uniform does not decrease from one frame update to
\* the next as long as the elapsed milliseconds do not pass a multiple of
\* 2^32 in between.
C9_TimeNeverDecreasesWithinPeriod ==
    [][(Redraw /\ elapsed'[1] = elapsed[1])
          => WordsLe(state.time.uniform.time, state'.time.uniform.time)]_vars

\* a frame update raised the time uniform
C9_Witness ==
    /\ event.kind = "RedrawRequested"
    /\ elapsed[1] = 0
    /\ state.time.uniform.time = <<U16Max, U16Max>>

\* C10: when acquiring the surface texture reports Lost, the surface is
\* configured again with the stored size, which stays as it was, nothing is
\* submitted or presented, and the event loop goes on.
C10_SurfaceLostReconfiguresAndSkips ==
    [][(Redraw /\ event'.arg1 = "Lost")
          => /\ state'.size = state.size
             /\ state'.surface_config = state.surface_config
             /\ state'.surface.config = state'.surface_config
             /\ state'.surface.calls = <<"get_current_texture", "configure">>
             /\ \A i \in 1..Len(state'.queue) : state'.queue[i].op # "submit"
             /\ LoopGoesOn]_vars

\* a frame was skipped on a lost surface and the surface configured again
C10_Witness ==
    /\ event.kind = "RedrawRequested"
    /\ event.arg1 = "Lost"
    /\ Calls(state, "configure") = 1
    /\ Running

\* the step handles a redraw request whose surface acquisition gave `results`
Acquired(results) == Redraw /\ event'.arg1 \in results

\* no command buffer was submitted while the last event was handled
NothingSubmitted(self) == \A i \in 1..Len(self.queue) : self.queue[i].op # "submit"

\* C11: when acquiring the surface texture reports OutOfMemory the event
\* loop is set to exit with nothing submitted or presented, and the loop
\* ends with that redraw: after it no frame is updated or rendered any more.
C11_OutOfMemoryExits ==
    [][/\ Acquired({"OutOfMemory"})
            => /\ control_flow' = "Exit"
               /\ loop_destroyed'
               /\ NothingSubmitted(state')
               /\ Calls(state', "present") = 0
       /\ (event.kind = "RedrawRequested" /\ event.arg1 = "OutOfMemory")
            => (~Redraw /\ state' = state)]_vars

\* the loop was set to exit by a frame whose surface was out of memory
C11_Witness ==
    /\ event.kind = "RedrawRequested"
    /\ event.arg1 = "OutOfMemory"
    /\ control_flow = "Exit"
    /\ loop_destroyed

TransientErrors == {"Outdated", "Timeout"}

\* the last event handled was a redraw whose surface acquisition failed
\* with a transient error
TransientFailure ==
    /\ event.kind = "RedrawRequested"
    /\ event.arg1 \in TransientErrors
    /\ ~redraw_requested

\* C12: an Outdated or Timeout error on acquiring the surface texture leaves
\* the event loop running, with the one acquisition of that redraw and
\* nothing submitted or presented; every MainEventsCleared requests a
\* redraw, every redraw acquires the texture once, and so after such an
\* error, unless the loop stops first, a redraw is requested again and
\* served with a new acquisition.
C12_TransientErrorRetriedNextFrame ==
    /\ [][/\ Acquired(TransientErrors)
               => /\ LoopGoesOn
                  /\ state'.surface.calls = <<"get_current_texture">>
                  /\ NothingSubmitted(state')
                  /\ ~redraw_requested'
          /\ Handles({"MainEventsCleared"}) => redraw_requested'
          /\ Redraw => Calls(state', "get_current_texture") = 1]_vars
    /\ TransientFailure ~> (redraw_requested \/ ~Running)
    /\ redraw_requested
          ~> (\/ event.kind = "RedrawRequested"
                   /\ Calls(state, "get_current_texture") = 1
              \/ ~Running)

\* a frame failed on a timeout and the event loop runs on
C12_Witness ==
    /\ TransientFailure
    /\ event.arg1 = "Timeout"
    /\ state.surface.calls = <<"get_current_texture">>
    /\ Running

\* C13: every draw reads buffers that hold the current uniform values: the
\* buffers bound by a submitted draw hold the time and mouse uniforms as
\* they are in memory, whatever cursor moves, resizes and reloads came
\* before the frame.
C13_BuffersCurrentAtDraw ==
    \A c \in Submitted :
        /\ c.bind_groups = <<state.time.uniform, state.mouse.uniform>>
        /\ state.time.buffer = state.time.uniform
        /\ state.mouse.buffer = state.mouse.uniform

\* a frame was drawn after the cursor had moved and time had passed
C13_Witness ==
    /\ event.kind = "RedrawRequested"
    /\ Submitted # {}
    /\ state.mouse.uniform # MouseUniform_new
    /\ state.time.uniform # TimeUniform_new

\* C14: a shader file that cannot be read or does not compile at startup is
\* fatal: the process panics inside State::new, so there is no render
\* state with a pipeline; only a start that failed is without a pipeline;
\* the event loop takes no step without one, and no frame is drawn
\* without one.
C14_StartupFailureIsFatal ==
    /\ files[ConfiguredPath] \notin ValidSources
          => (panicked # "" /\ state.render_pipeline = NoPipeline)
    /\ [](state.render_pipeline = NoPipeline
             => (panicked # "" /\ event.kind = "Init"))
    /\ [](\A c \in Submitted : c.pipeline.shader \in ValidSources)
    /\ [][panicked = "" /\ state.render_pipeline # NoPipeline]_vars

\* the start failed on a shader file that does not compile
C14_Witness ==
    /\ event.kind = "Init"
    /\ files[ConfiguredPath] = Invalid
    /\ panicked = "wgpu error"
    /\ state.render_pipeline = NoPipeline

\* C15: the background colour starts as the f64 values 0.1, 0.2, 0.3, 1.0;
\* a cursor move to the middle of the width and a quarter of the height
\* makes it (0.5, 0.25, 0.3, 1.0) and the mouse uniform the f32 values
\* (0.5, 0.75); the blue and alpha channels are 0.3 and 1.0 in every state,
\* and every frame is cleared to the background colour.
C15_BackgroundScenario ==
    LET tenth == F64("num", FALSE, -3, 53687091, 26843546)
        fifth == F64("num", FALSE, -2, 53687091, 26843546)
        threeTenths == F64("num", FALSE, -1, 40265318, 53687091)
        one == F64("num", FALSE, 1, 33554432, 0)
        half == F64("num", FALSE, 0, 33554432, 0)
        quarter == F64("num", FALSE, -1, 33554432, 0)
        half32 == F32("num", FALSE, 0, 8388608)
        threeQuarters32 == F32("num", FALSE, 0, 12582912)
    IN  /\ (event.kind = "Init" /\ panicked = "")
              => state.background_colour
                     = [r |-> tenth, g |-> fifth, b |-> threeTenths, a |-> one]
        /\ (/\ event.kind = "CursorMoved"
             /\ 2 * event.arg1 = state.size.width
             /\ 4 * event.arg2 = state.size.height)
              => /\ state.background_colour
                        = [r |-> half, g |-> quarter, b |-> threeTenths, a |-> one]
                 /\ state.mouse.uniform.cursor_pos = <<half32, threeQuarters32>>
        /\ state.background_colour.b = threeTenths
        /\ state.background_colour.a = one
        /\ \A c \in Submitted : c.clear = state.background_colour

\* the cursor moved to the middle of the width and a quarter of the height
C15_Witness ==
    /\ event.kind = "CursorMoved"
    /\ 2 * event.arg1 = state.size.width
    /\ 4 * event.arg2 = state.size.height
    /\ state.mouse.uniform.cursor_pos[1] # state.mouse.uniform.cursor_pos[2]

\* C16: a reload, whether it builds a pipeline or fails, changes no field of
\* the render state but the pipeline: the surface and its configuration, the
\* pipeline layout, the stored size, the geometry buffers and index count,
\* the uniform values with their buffers and bind groups, the background
\* colour and the configured path stay as they were, nothing is written to
\* the queue or asked of the surface, and the device is the same device,
\* having made at most one more pipeline.
C16_ReloadReplacesOnlyPipeline ==
    [][Reload
          => /\ state'.time = state.time
             /\ state'.surface_config = state.surface_config
             /\ state'.render_pipeline_layout = state.render_pipeline_layout
             /\ state'.config = state.config
             /\ state'.surface.config = state.surface.config
             /\ state'.surface.calls = <<>>
             /\ state'.device.pipelines - state.device.pipelines \in {0, 1}
             /\ state'.queue = <<>>
             /\ state'.size = state.size
             /\ state'.vertex_buffer = state.vertex_buffer
             /\ state'.index_buffer = state.index_buffer
             /\ state'.num_indices = state.num_indices
             /\ state'.background_colour = state.background_colour
             /\ state'.mouse = state.mouse
             /\ DOMAIN state' = DOMAIN state]_vars

\* a reload built a pipeline after the cursor had moved, the window had
\* been resized and frames had been drawn
C16_Witness ==
    /\ event.kind = "ReloadKeyPressed"
    /\ state.render_pipeline.id > 1
    /\ state.mouse.uniform # MouseUniform_new
    /\ state.time.uniform # TimeUniform_new
    /\ state.size.width # state.size.height

\* C17: the events are handled one at a time and each handler runs to its
\* end, so what the next event, and every frame, finds is whole: the
\* surface is configured with the stored configuration, the stored size is
\* the size of that configuration, the active pipeline is the last one the
\* device made, built from a shader that compiles with the stored layout
\* and the stored surface format, a frame binds that pipeline, and a
\* redraw is served before any further window event is handled.
C17_HandlersRunToCompletion ==
    /\ state.surface.config = state.surface_config
    /\ state.size = Size(state.surface_config.width, state.surface_config.height)
    /\ state.render_pipeline # NoPipeline
          => /\ state.render_pipeline.id = state.device.pipelines
             /\ state.render_pipeline.layout = state.render_pipeline_layout
             /\ state.render_pipeline.format = state.surface_config.format
             /\ state.render_pipeline.shader \in ValidSources
    /\ \A c \in Submitted : c.pipeline = state.render_pipeline
    /\ redraw_requested => event.kind = "MainEventsCleared"
    /\ event.kind \in {"Resized", "ScaleFactorChanged"}
          => (\/ state.size = Size(event.arg1, event.arg2)
              \/ event.arg1 = 0
              \/ event.arg2 = 0)

\* a frame was drawn after two reloads and a resize
C17_Witness ==
    /\ event.kind = "RedrawRequested"
    /\ Submitted # {}
    /\ state.render_pipeline.id > 2
    /\ state.size.width # state.size.height
    /\ state.mouse.uniform # MouseUniform_new

\* C18: every redraw runs the update once and first: the queue sees the
\* write of the time buffer and the write of the mouse buffer, in this
\* order and before anything else, and the time uniform is the elapsed
\* time of this redraw.  A redraw whose surface texture is acquired then
\* records one draw_indexed call over the indices 0 .. num_indices, with
\* num_indices the length of INDICES, on the vertex and index buffers made
\* from VERTICES and INDICES and on the time buffer just written, submits
\* that one command buffer and then presents the texture once: the calls
\* the frame makes on the queue and the surface are, in this order, the two
\* buffer writes, get_current_texture, submit and present, and a redraw
\* whose texture is not acquired makes the first three and neither submits
\* nor presents.
C18_UpdateThenOneDrawSubmitPresent ==
    [][Redraw
          => LET q == state'.queue
             IN  /\ Len(q) >= 2
                 /\ q[1] = [op |-> "write_buffer", arg |-> "Time Buffer"]
                 /\ q[2] = [op |-> "write_buffer", arg |-> "Mouse Buffer"]
                 /\ \A i \in 3..Len(q) : q[i].op # "write_buffer"
                 /\ state'.time.uniform.time = AsU32(elapsed')
                 /\ state'.surface.calls[1] = "get_current_texture"
                 /\ SubSeq(state'.trace, 1, 3)
                       = <<"write_buffer", "write_buffer", "get_current_texture">>
                 /\ event'.arg1 # "Ok"
                       => /\ Len(q) = 2
                          /\ Calls(state', "present") = 0
                 /\ event'.arg1 = "Ok"
                       => /\ Len(q) = 3
                          /\ q[3].op = "submit"
                          /\ q[3].arg.draw_indexed = << <<0, Len(INDICES)>> >>
                          /\ state'.num_indices = Len(INDICES)
                          /\ q[3].arg.vertex_buffer = VERTICES
                          /\ q[3].arg.index_buffer = INDICES
                          /\ q[3].arg.bind_groups[1].time = AsU32(elapsed')
                          /\ state'.surface.calls
                                = <<"get_current_texture", "present">>
                          /\ state'.trace
                                = <<"write_buffer", "write_buffer",
                                    "get_current_texture", "submit", "present">>]_vars

\* a frame was drawn at a later time than the start
C18_Witness ==
    /\ event.kind = "RedrawRequested"
    /\ event.arg1 = "Ok"
    /\ Len(state.queue) = 3
    /\ state.queue[3].arg.bind_groups[1] # TimeUniform_new
    /\ state.trace[4] = "submit"
    /\ state.trace[5] = "present"

\* C19: only a reload changes which pipeline is active: a cursor move, a
\* resize, a scale factor change, any other window event, a request for a
\* redraw, a frame, drawn or failed, the recovery of a lost surface and an
\* edit of the shader file all leave the active pipeline the same object,
\* and the device makes no pipeline in them.
C19_PipelineChangesOnlyOnReload ==
    [][(\/ Handles({"CursorMoved", "Resized", "ScaleFactorChanged", "Focused",
                    "CloseRequested", "EscapePressed", "MainEventsCleared",
                    "RedrawRequested"})
        \/ files' # files)
          => /\ state'.render_pipeline = state.render_pipeline
             /\ state'.device.pipelines = state.device.pipelines]_vars

\* a pipeline built by a reload is still the active one after the window
\* was resized and a lost surface recovered
C19_Witness ==
    /\ event.kind = "RedrawRequested"
    /\ event.arg1 = "Lost"
    /\ state.render_pipeline.id = 2
    /\ state.size.width # state.size.height

\* C20: a redraw whose surface texture cannot be acquired records no draw,
\* submits nothing and presents nothing: the queue sees the two writes of
\* the update and no more, and the surface only the one acquisition, and
\* then, for a lost surface, its configuration.  The failed render changes
\* nothing in the render state: the pipeline, the mouse uniform, the
\* background colour, the size and the configuration are as before the
\* redraw and the time uniform is what the update made it.
C20_FailedAcquisitionRecordsNothing ==
    [][Acquired(SurfaceErrors)
          => /\ state'.queue = << [op |-> "write_buffer", arg |-> "Time Buffer"],
                                  [op |-> "write_buffer", arg |-> "Mouse Buffer"] >>
             /\ Calls(state', "present") = 0
             /\ Calls(state', "get_current_texture") = 1
             /\ event'.arg1 # "Lost"
                   => state'.surface.calls = <<"get_current_texture">>
             /\ state'.time.uniform.time = AsU32(elapsed')
             /\ state'.time.buffer = state'.time.uniform
             /\ state'.surface_config = state.surface_config
             /\ state'.surface.config = state.surface.config
             /\ state'.size = state.size
             /\ state'.render_pipeline = state.render_pipeline
             /\ state'.background_colour = state.background_colour
             /\ state'.mouse.uniform = state.mouse.uniform
             /\ state'.mouse.buffer = state.mouse.uniform]_vars

\* a frame failed on an outdated surface after the cursor had moved
C20_Witness ==
    /\ event.kind = "RedrawRequested"
    /\ event.arg1 = "Outdated"
    /\ Len(state.queue) = 2
    /\ state.mouse.buffer # MouseUniform_new

\* the kinds of window event the closure is handed
WindowEventKinds ==
    {"CursorMoved", "CloseRequested", "EscapePressed", "Resized",
     "ScaleFactorChanged", "ReloadKeyPressed", "Focused"}

\* C21: the input handler reports a window event as fully processed exactly
\* when it is a cursor move, so every other window event reaches the
\* driver's own handling: a close request or an Escape press sets the loop
\* to exit, a resize or a scale-factor change with a positive size is
\* stored and configures the surface; a cursor move does none of these.
C21_OnlyCursorMovesAreProcessed ==
    [][/\ Handles(WindowEventKinds)
            => input(Begin(state), event').processed = (event'.kind = "CursorMoved")
       /\ Handles({"CloseRequested", "EscapePressed"}) => control_flow' = "Exit"
       /\ (Resize /\ event'.arg1 > 0 /\ event'.arg2 > 0)
            => /\ state'.size = Size(event'.arg1, event'.arg2)
               /\ state'.surface.calls = <<"configure">>
       /\ Handles({"CursorMoved"})
            => /\ control_flow' = control_flow
               /\ state'.size = state.size
               /\ state'.surface.calls = <<>>]_vars

\* a scale-factor change went through the input handler to the driver and
\* resized the surface
C21_Witness ==
    /\ event.kind = "ScaleFactorChanged"
    /\ state.size = Size(event.arg1, event.arg2)
    /\ state.surface.calls = <<"configure">>

\* the step handles a close request or a press of the Escape key
Close == Handles({"CloseRequested", "EscapePressed"})

\* C22 as stated: a close request or a press of the Escape key sets the
\* event loop to exit, and once the loop is set to exit no update, render,
\* resize or reload is performed any more.
C22_NothingAfterClose ==
    [][/\ Close => control_flow' = "Exit"
       /\ control_flow = "Exit"
            => ~Handles({"RedrawRequested", "Resized", "ScaleFactorChanged",
                         "ReloadKeyPressed"})]_vars

\* C22: a close request or a press of the Escape key sets the event loop to
\* exit and does nothing else to the render state; no later handler takes
\* the exit back; the redraw of the iteration in which the loop was set to
\* exit is still served, with its update and render, and after that redraw
\* the loop has left and nothing is handled any more.
C22_CloseExitsAfterCurrentIteration ==
    [][/\ Close => (control_flow' = "Exit" /\ state' = Begin(state) /\ panicked' = "")
       /\ control_flow = "Exit" => control_flow' = "Exit"
       /\ (control_flow = "Exit" /\ Redraw) => loop_destroyed'
       /\ loop_destroyed => UNCHANGED vars]_vars

\* after an Escape press set the loop to exit, one more frame was updated,
\* rendered and presented, and the loop has left
C22_Witness ==
    /\ event.kind = "RedrawRequested"
    /\ event.arg1 = "Ok"
    /\ Submitted # {}
    /\ Calls(state, "present") = 1
    /\ control_flow = "Exit"
    /\ loop_destroyed

\* C23: the geometry table is a valid indexed quad: four vertices, six
\* indices that form two triangles of three different vertices each, every
\* index below the number of vertices and every vertex used by some index;
\* the buffers made from the table at startup and the index count stay as
\* they were made in every state of a run, and every frame draws them.
C23_GeometryIsValidQuad ==
    /\ Len(VERTICES) = 4
    /\ Len(INDICES) = 6
    /\ \A i \in 1..Len(INDICES) : INDICES[i] \in 0..(Len(VERTICES) - 1)
    /\ \A v \in 0..(Len(VERTICES) - 1) : \E i \in 1..Len(INDICES) : INDICES[i] = v
    /\ \A k \in 0..1 :
          LET t == Triangle(INDICES, k) IN Cardinality({t[1], t[2], t[3]}) = 3
    /\ state.vertex_buffer = VERTICES
    /\ state.index_buffer = INDICES
    /\ state.num_indices = 6
    /\ \A c \in Submitted :
          /\ c.vertex_buffer = VERTICES
          /\ c.index_buffer = INDICES
          /\ c.draw_indexed = << <<0, 6>> >>

\* a frame drew the quad after a reload and a resize had been handled
C23_Witness ==
    /\ event.kind = "RedrawRequested"
    /\ Submitted # {}
    /\ state.device.pipelines > 1
    /\ state.surface_config.width # state.surface_config.height
    /\ state.index_buffer = <<2, 3, 0, 1, 2, 0>>

\* C24: in every reachable state the stored size is the width and height
\* of the stored surface configuration, which is the configuration the
\* surface was last given, whatever resizes, accepted or rejected, and
\* recoveries of a lost surface were handled; the surface format, usage and
\* present mode are the ones chosen at startup.
C24_SizeAgreesWithSurfaceConfig ==
    /\ state.size.width = state.surface_config.width
    /\ state.size.height = state.surface_config.height
    /\ state.surface.config.width = state.size.width
    /\ state.surface.config.height = state.size.height
    /\ \A cfg \in {state.surface_config, state.surface.config} :
          /\ cfg.format = PreferredFormat
          /\ cfg.usage = "RENDER_ATTACHMENT"
          /\ cfg.present_mode = "Fifo"

\* a resize to a zero height was rejected while the stored size had a
\* width and a height that differ
C24_Witness ==
    /\ event.kind = "Resized"
    /\ event.arg1 = MaxDim
    /\ event.arg2 = 0
    /\ state.size = Size(MaxDim - 1, MaxDim)
    /\ state.surface_config.width = MaxDim - 1
    /\ state.surface_config.height = MaxDim

\* the float is a number: neither an infinity nor a NaN, which a division
\* by zero gives
IsFinite(f) == f.cls = "num"

\* C25: the window starts with a positive width and height, and after every
\* event the stored width and height are positive; a resize or scale-factor
\* change with a zero dimension leaves the stored size as it was; every
\* cursor move divides the position by the size stored before it, never by
\* zero, so the red and green channels and the mouse uniform are finite.
C25_StoredSizeStaysPositive ==
    /\ state.size.width > 0
    /\ state.size.height > 0
    /\ [][/\ state'.size.width > 0
          /\ state'.size.height > 0
          /\ (Resize /\ (event'.arg1 = 0 \/ event'.arg2 = 0)) => state'.size = state.size
          /\ Handles({"CursorMoved"})
               => /\ state'.background_colour.r = F64Div(event'.arg1, state.size.width)
                  /\ state'.background_colour.g = F64Div(event'.arg2, state.size.height)
                  /\ IsFinite(state'.background_colour.r)
                  /\ IsFinite(state'.background_colour.g)
                  /\ \A i \in 1..2 : IsFinite(state'.mouse.uniform.cursor_pos[i])]_vars

\* a cursor move was normalised by a stored size whose width and height
\* differ
C25_Witness ==
    /\ event.kind = "CursorMoved"
    /\ event.arg1 = 2
    /\ event.arg2 = 1
    /\ state.size = Size(MaxDim, MaxDim - 1)
    /\ state.background_colour.r = F64Div(2, MaxDim)
    /\ state.background_colour.g = F64Div(1, MaxDim - 1)

\* C26: the time uniform is the last reading of the elapsed milliseconds
\* modulo 2^32, the two low 16-bit words of the reading, and the frame
\* that read it wrote it to the time buffer; so once the reading has
\* passed 2^32 milliseconds the uniform is smaller than the reading.
C26_TimeIsElapsedMod2To32 ==
    /\ state.time.uniform.time = <<elapsed[2], elapsed[3]>>
    /\ \A i \in 1..2 : state.time.uniform.time[i] \in 0..U16Max
    /\ event.kind = "RedrawRequested" => state.time.buffer = state.time.uniform
    /\ elapsed[1] > 0
          => /\ WordsLe(<<0>> \o state.time.uniform.time, elapsed)
             /\ <<0>> \o state.time.uniform.time # elapsed

\* the frame at 2^32 milliseconds wrote a time uniform of 0
C26_Witness ==
    /\ event.kind = "RedrawRequested"
    /\ elapsed = <<1, 0, 0>>
    /\ state.time.uniform.time = <<0, 0>>
    /\ state.time.buffer.time = <<0, 0>>

\* the triangles a submitted draw assembles from its index buffer
DrawnTriangles(c) ==
    {Triangle(c.index_buffer, k) : k \in 0..(c.draw_indexed[1][2] \div 3 - 1)}

\* the points of the square [-1, 1] x [-1, 1] on the grid, times GridSteps
GridPoints == (-GridSteps..GridSteps) \X (-GridSteps..GridSteps)

\* C27: the two triangles of the index list are (2, 3, 0) and (1, 2, 0),
\* both wound counter-clockwise in clip space; every draw submitted uses a
\* pipeline with counter-clockwise front faces and back-face culling, so
\* neither triangle is culled; the triangles lie on either side of the
\* diagonal they share, their areas add up to the area of the square, and
\* every grid point of the square lies in one of them.
C27_BothTrianglesFrontFacingAndCoverSquare ==
    /\ Triangle(INDICES, 0) = <<2, 3, 0>>
    /\ Triangle(INDICES, 1) = <<1, 2, 0>>
    /\ \A k \in 0..1 : Winding(VERTICES, Triangle(INDICES, k)) = "Ccw"
    /\ SignedArea2(VERTICES[1], VERTICES[3], VERTICES[4]) > 0
    /\ SignedArea2(VERTICES[1], VERTICES[3], VERTICES[2]) < 0
    /\ SignedArea2(VERTICES[3], VERTICES[4], VERTICES[1])
          + SignedArea2(VERTICES[2], VERTICES[3], VERTICES[1]) = 2 * (2 * 2)
    /\ \A v \in 1..Len(VERTICES) : {VERTICES[v][1], VERTICES[v][2]} \subseteq {-1, 1}
    /\ \A c \in Submitted :
          /\ c.pipeline.primitive.topology = "TriangleList"
          /\ c.pipeline.primitive.front_face = "Ccw"
          /\ c.pipeline.primitive.cull_mode = "Back"
          /\ \A t \in DrawnTriangles(c) :
                ~Culled(c.pipeline.primitive, Winding(c.vertex_buffer, t))
          /\ \A pt \in GridPoints :
                \E t \in DrawnTriangles(c) : Covers(c.vertex_buffer, t, pt, GridSteps)

\* a frame drew both triangles with the pipeline a reload built; the corner
\* at (1, -1) lies in the second triangle only
C27_Witness ==
    \E c \in Submitted :
        /\ c.pipeline.id > 1
        /\ DrawnTriangles(c) = {<<2, 3, 0>>, <<1, 2, 0>>}
        /\ ~Culled(c.pipeline.primitive, Winding(c.vertex_buffer, <<1, 2, 0>>))
        /\ Covers(c.vertex_buffer, <<1, 2, 0>>, <<GridSteps, -GridSteps>>, GridSteps)
        /\ ~Covers(c.vertex_buffer, <<2, 3, 0>>, <<GridSteps, -GridSteps>>, GridSteps)
====
